---- MODULE Spec2Model ----
(***************************************************************************)
(* PRISM backend (backend/app): the Stripe webhook pipeline and the        *)
(* Subscription state machine, the scheduled-post dispatcher with its      *)
(* Redis rate limiter, and the X OAuth2 + PKCE callback.                   *)
(*                                                                         *)
(* The three subsystems share no state, so each has its own specification  *)
(* (SpecBilling, SpecDispatch, SpecOAuth) over the one set of variables;   *)
(* a specification leaves the other subsystems' variables at Init.         *)
(*                                                                         *)
(* Granularity: one action per access to shared state (a database          *)
(* transaction, a Redis command, an outbound HTTP call).  Web workers and  *)
(* Celery workers are separate processes, so the steps of two requests or  *)
(* tasks interleave freely between such accesses.                          *)
(***************************************************************************)
EXTENDS Integers, Sequences, FiniteSets, Bags, TLC

(***************************************************************************)
(* Bounds of the model.                                                    *)
(***************************************************************************)
MaxEvents == 1       \* Stripe event ids under observation at one time
MaxDeliveries == 2   \* webhook requests in flight at once
MaxInvoices == 1     \* distinct Stripe invoice ids
MaxApplied == 2      \* the per-event application counter saturates here
MaxPosts == 2        \* ScheduledPost ids
MaxTasks == 2        \* dispatcher tasks queued or running at once
MaxDeletes == 1      \* delete requests in flight at once
MaxTime == 900      \* the clock stops here (seconds)
TickSeconds == 450   \* seconds that pass in one step of the clock
InitHeadroom == 1    \* Init: the rate counter starts absent or this close to the limit
MaxTweets == 2       \* the per-row count of published tweets saturates here
MaxStates == 2       \* OAuth state values issued
MaxCallbacks == 2    \* OAuth callbacks in flight at once
MaxExchanges == 2    \* the per-state count of token exchanges saturates here
MaxStride == 9       \* random byte sequences: strides 0..MaxStride (times 37)
MaxOffset == 11      \* random byte sequences: first bytes 0..MaxOffset (times 23)

VARIABLES
    subs,        \* table subscriptions: user id -> row (models.Subscription)
    payments,    \* table payment_history: sequence of rows, in insertion order
    ledger,      \* table stripe_webhook_events: event id -> row
    catalog,     \* the provider's events: event id -> payload (fixed once emitted)
    deliveries,  \* webhook requests in flight: a bag of [pc, ev, data]
    response,    \* what the step just taken answered: [ev, resp]
    applied,     \* history: event id -> times its handler's writes were committed
    now,         \* the clock (seconds)
    posts,       \* table scheduled_posts: id -> row (models.ScheduledPost)
    rate,        \* Redis key rate_limit:user_<id>:x_posts: [count, ttl]
    tasks,       \* Celery messages prism.post_scheduled_tweet: a bag of [id, eta]
    workers,     \* dispatcher tasks running: a bag of [pc, id, snap, reset_in, tweet, stamp]
    deletes,     \* delete requests in flight: a bag of [id]
    tweets,      \* history: row id -> tweets the X API created for it
    blocked,     \* history: row id -> a dispatcher run was stopped by the rate limit
    states,      \* Redis keys oauth_state:<state>: state -> [issued, ttl]
    callbacks,   \* OAuth callbacks in flight: a bag of [pc, state, x, handle, found]
    users,       \* table users: sequence of rows, in insertion order (models.User)
    exchanges,   \* history: state -> token exchanges X granted under it
    pkce         \* the last pair generate_pkce_pair returned: [verifier, challenge]

billingVars == <<subs, payments, ledger, catalog, deliveries, applied>>

dispatchVars == <<now, posts, rate, tasks, workers, deletes, tweets, blocked>>

oauthVars == <<states, callbacks, users, exchanges, pkce>>

vars == <<subs, payments, ledger, catalog, deliveries, response, applied,
          now, posts, rate, tasks, workers, deletes, tweets, blocked,
          states, callbacks, users, exchanges, pkce>>

\* The user whose Subscription is followed.  Every handler and endpoint reads
\* and writes the one row its key selects; rows of different users meet only
\* in the unique constraints.
Users == {1}
EventIds == 1..MaxEvents
InvoiceIds == 1..MaxInvoices

Min(a, b) == IF a < b THEN a ELSE b

(***************************************************************************)
(* models.py                                                               *)
(***************************************************************************)
\* Subscription.status as the code's comment lists it
SubscriptionStatuses == {"incomplete", "active", "canceled", "past_due", "unpaid"}

PlanTypes == {"free", "pro"}

\* The status values Stripe sends in customer.subscription.updated: the five
\* above and those Stripe has besides (trialing stands for them).
ProviderStatuses == SubscriptionStatuses \cup {"trialing"}

\* No row for this user.  0 is SQL NULL in the id and period columns.
NoSubscription ==
    [present |-> FALSE, stripe_subscription_id |-> 0, status |-> "incomplete",
     plan_type |-> "free", cancel_at_period_end |-> FALSE,
     canceled_at |-> FALSE, current_period |-> 0]

\* The row create_checkout_session inserts (column defaults included)
NewSubscription ==
    [present |-> TRUE, stripe_subscription_id |-> 0, status |-> "incomplete",
     plan_type |-> "free", cancel_at_period_end |-> FALSE,
     canceled_at |-> FALSE, current_period |-> 0]

NoLedgerRow == [present |-> FALSE, processed |-> FALSE, error |-> FALSE]

\* StripeWebhookEvent(stripe_event_id, event_type): processed defaults to False
NewLedgerRow == [present |-> TRUE, processed |-> FALSE, error |-> FALSE]

\* A gate that looks at the status alone
is_active(S, u) == S[u].present /\ S[u].status = "active"

\* User.is_pro: derived on every read, never stored
is_pro(S, u) ==
    IF ~S[u].present THEN FALSE
    ELSE S[u].status = "active" /\ S[u].plan_type = "pro"

\* unique=True on subscriptions.stripe_subscription_id (NULLs do not collide)
UniqueStripeSubscriptionId(S) ==
    \A u, v \in Users :
        (u # v /\ S[u].present /\ S[v].present
            /\ S[u].stripe_subscription_id # 0)
        => S[u].stripe_subscription_id # S[v].stripe_subscription_id

\* unique=True on payment_history.stripe_payment_intent_id and
\* payment_history.stripe_invoice_id (NULLs do not collide)
UniquePayments(P) ==
    \A i, j \in 1..Len(P) :
        i # j =>
            /\ (P[i].stripe_invoice_id # 0
                    => P[i].stripe_invoice_id # P[j].stripe_invoice_id)
            /\ (P[i].stripe_payment_intent_id # 0
                    => P[i].stripe_payment_intent_id # P[j].stripe_payment_intent_id)

(***************************************************************************)
(* The provider's event envelopes {id, type, data.object}.  sub is the     *)
(* provider's subscription id the object names (0: none, or one no local   *)
(* row carries); ref is metadata.subscription_id of a checkout session     *)
(* (0: absent); period 0 and malformed stand for an object that lacks a    *)
(* field the handler reads (current_period_start, payment_intent, lines).  *)
(***************************************************************************)
EventTypes ==
    {"checkout.session.completed", "customer.subscription.updated",
     "customer.subscription.deleted", "invoice.paid",
     "invoice.payment_failed", "customer.created"}

Payload(t, ref, sub, st, cancel, period, inv, bad) ==
    [type |-> t, ref |-> ref, sub |-> sub, status |-> st, cancel |-> cancel,
     period |-> period, invoice |-> inv, malformed |-> bad]

NoEvent == Payload("none", 0, 0, "incomplete", FALSE, 0, 0, FALSE)

\* An event the endpoint has answered with success: every later delivery of
\* it stops at the ledger lookup, which reads only its id.
Acknowledged == Payload("acknowledged", 0, 0, "incomplete", FALSE, 0, 0, FALSE)

Payloads ==
    {Payload("checkout.session.completed", r, s, "incomplete", FALSE, 0, 0, FALSE) :
        r \in {0} \cup Users, s \in Users}
    \cup {Payload("customer.subscription.updated", 0, s, st, c, p, 0, FALSE) :
        s \in Users, st \in ProviderStatuses, c \in BOOLEAN, p \in {1}}
    \cup {Payload("customer.subscription.updated", 0, s, st, FALSE, 0, 0, FALSE) :
        s \in Users, st \in ProviderStatuses}
    \cup {Payload("customer.subscription.updated", 0, 0, "active", FALSE, 1, 0, FALSE)}
    \cup {Payload("customer.subscription.deleted", 0, s, "incomplete", FALSE, 0, 0, FALSE) :
        s \in {0} \cup Users}
    \cup {Payload(t, 0, s, "incomplete", FALSE, 0, i, b) :
        t \in {"invoice.paid", "invoice.payment_failed"},
        s \in Users, i \in InvoiceIds, b \in BOOLEAN}
    \cup {Payload(t, 0, 0, "incomplete", FALSE, 0, 1, FALSE) :
        t \in {"invoice.paid", "invoice.payment_failed"}}
    \cup {Payload("customer.created", 0, 0, "incomplete", FALSE, 0, 0, FALSE)}

(***************************************************************************)
(* stripe_webhooks.py: WebhookHandler.  A handler is one database          *)
(* transaction on the request's session.  Its result:                      *)
(*   outcome "ok"        it returned; subs/payments are the committed      *)
(*                       tables (wrote: it committed a change)             *)
(*   outcome "raised"    it raised before its commit; subs/payments hold   *)
(*                       the session's unflushed changes (wrote: some)     *)
(*   outcome "integrity" its commit failed on a unique constraint: the     *)
(*                       transaction is rolled back and the session is     *)
(*                       left inactive                                     *)
(***************************************************************************)
Result(o, S, P, w) == [outcome |-> o, subs |-> S, payments |-> P, wrote |-> w]

\* A lookup that takes any row for the subscription the event names
AnySubscription(S, sid) == {u \in Users : S[u].present}

\* db.query(Subscription).filter(stripe_subscription_id == sid).first()
SubscriptionByStripeId(S, sid) ==
    {u \in Users : S[u].present /\ sid # 0 /\ S[u].stripe_subscription_id = sid}

handle_checkout_completed(ev, S, P) ==
    IF ev.ref # 0 /\ ev.ref \in Users /\ S[ev.ref].present
    THEN LET S2 == [S EXCEPT ![ev.ref].stripe_subscription_id = ev.sub,
                             ![ev.ref].status = "active"]
         IN  IF UniqueStripeSubscriptionId(S2)
             THEN Result("ok", S2, P, TRUE)
             ELSE Result("integrity", S, P, FALSE)
    ELSE Result("ok", S, P, FALSE)

\* The plan_type branch of handle_subscription_updated
UpdatedPlanType(old, st) ==
    IF st = "active" THEN "pro"
    ELSE IF st \in {"canceled", "unpaid"} THEN "free"
    ELSE old

handle_subscription_updated(ev, S, P) ==
    LET m == SubscriptionByStripeId(S, ev.sub) IN
    IF m = {} THEN Result("ok", S, P, FALSE)
    ELSE LET u == CHOOSE x \in m : TRUE IN
         IF ev.period = 0
         THEN \* status is assigned, then reading current_period_start raises
              Result("raised", [S EXCEPT ![u].status = ev.status], P, TRUE)
         ELSE Result("ok",
                     [S EXCEPT ![u].status = ev.status,
                               ![u].current_period = ev.period,
                               ![u].cancel_at_period_end = ev.cancel,
                               ![u].plan_type = UpdatedPlanType(@, ev.status)],
                     P, TRUE)

\* A deletion that cancels the row and leaves its plan alone
subscription_deleted_keeps_plan(ev, S, P) ==
    LET m == SubscriptionByStripeId(S, ev.sub) IN
    IF m = {} THEN Result("ok", S, P, FALSE)
    ELSE LET u == CHOOSE x \in m : TRUE IN
         Result("ok", [S EXCEPT ![u].status = "canceled", ![u].canceled_at = TRUE],
                P, TRUE)

handle_subscription_deleted(ev, S, P) ==
    LET m == SubscriptionByStripeId(S, ev.sub) IN
    IF m = {} THEN Result("ok", S, P, FALSE)
    ELSE LET u == CHOOSE x \in m : TRUE IN
         Result("ok",
                [S EXCEPT ![u].status = "canceled",
                          ![u].plan_type = "free",
                          ![u].canceled_at = TRUE],
                P, TRUE)

PaymentRow(u, intent, inv, st) ==
    [subscription_id |-> u, stripe_payment_intent_id |-> intent,
     stripe_invoice_id |-> inv, status |-> st]

handle_invoice_paid(ev, S, P) ==
    LET m == SubscriptionByStripeId(S, ev.sub) IN
    IF ev.sub = 0 \/ m = {} THEN Result("ok", S, P, FALSE)
    ELSE LET u == CHOOSE x \in m : TRUE IN
         IF ev.malformed
         THEN \* building the row raises; nothing was changed in the session
              Result("raised", S, P, FALSE)
         ELSE LET P2 == Append(P, PaymentRow(u, ev.invoice, ev.invoice, "succeeded"))
              IN  IF UniquePayments(P2)
                  THEN Result("ok", S, P2, TRUE)
                  ELSE Result("integrity", S, P, FALSE)

\* A handler that records the failure on the row the invoice already has
payment_failed_replaces_row(ev, S, P) ==
    LET m == SubscriptionByStripeId(S, ev.sub) IN
    IF ev.sub = 0 \/ m = {} THEN Result("ok", S, P, FALSE)
    ELSE LET u == CHOOSE x \in m : TRUE
             S2 == [S EXCEPT ![u].status = "past_due"]
             row == PaymentRow(u, 0, ev.invoice, "failed")
         IN  Result("ok", S2,
                    IF P = <<>> THEN <<row>> ELSE [P EXCEPT ![Len(P)] = row], TRUE)

handle_invoice_payment_failed(ev, S, P) ==
    LET m == SubscriptionByStripeId(S, ev.sub) IN
    IF ev.sub = 0 \/ m = {} THEN Result("ok", S, P, FALSE)
    ELSE LET u == CHOOSE x \in m : TRUE
             S2 == [S EXCEPT ![u].status = "past_due"]
         IN  IF ev.malformed
             THEN \* status is assigned, then building the row raises
                  Result("raised", S2, P, TRUE)
             ELSE LET P2 == Append(P, PaymentRow(u, 0, ev.invoice, "failed"))
                  IN  IF UniquePayments(P2)
                      THEN Result("ok", S2, P2, TRUE)
                      ELSE Result("integrity", S, P, FALSE)

\* event_handlers.get(event['type']) and the call, in stripe_webhook
RunHandler(ev, S, P) ==
    CASE ev.type = "checkout.session.completed" -> handle_checkout_completed(ev, S, P)
      [] ev.type = "customer.subscription.updated" -> handle_subscription_updated(ev, S, P)
      [] ev.type = "customer.subscription.deleted" -> handle_subscription_deleted(ev, S, P)
      [] ev.type = "invoice.paid" -> handle_invoice_paid(ev, S, P)
      [] ev.type = "invoice.payment_failed" -> handle_invoice_payment_failed(ev, S, P)
      [] OTHER -> Result("ok", S, P, FALSE)

(***************************************************************************)
(* main.py: stripe_webhook, one action per database access.  The requests *)
(* in flight are a bag of [pc, ev, data]: where the request stands, the    *)
(* event id it carries and that event's payload.                           *)
(***************************************************************************)
InFlight(pc, e, p) == [pc |-> pc, ev |-> e, data |-> p]

NoResponse == [ev |-> 0, resp |-> "none"]

Answer(e, r) == [ev |-> e, resp |-> r]

\* Request r leaves the bag, or goes on as r2
Leave(r) == deliveries (-) SetToBag({r})

Move(r, r2) == (deliveries (-) SetToBag({r})) (+) SetToBag({r2})

AtPc(pc) == {r \in BagToSet(deliveries) : r.pc = pc}

\* A lookup that never finds an event processed
NeverProcessed(row) == FALSE

\* `if existing_event and existing_event.processed: return already_processed`
AlreadyProcessed(row) == row.present /\ row.processed

CountApplied(e) == [applied EXCEPT ![e] = Min(@ + 1, MaxApplied)]

\* A verification that lets every request through
SkipVerification(payload_ok, sig_ok) == "event"

\* StripeService.construct_webhook_event: stripe.Webhook.construct_event checks
\* the signature of the raw body, then parses the body
construct_webhook_event(payload_ok, sig_ok) ==
    IF ~sig_ok THEN "SignatureVerificationError"
    ELSE IF ~payload_ok THEN "ValueError"
    ELSE "event"

\* construct_webhook_event fails: 400, before the ledger is read
WebhookRejected(e) ==
    /\ BagCardinality(deliveries) < MaxDeliveries
    /\ response' = Answer(e, "400")
    /\ UNCHANGED <<subs, payments, ledger, catalog, deliveries, applied>>
    /\ UNCHANGED <<dispatchVars, oauthVars>>

\* signature verified, then the ledger lookup by stripe_event_id
WebhookReceive(e, p) ==
    /\ BagCardinality(deliveries) < MaxDeliveries
    /\ catalog[e] \in {NoEvent, p}
    /\ catalog[e] = NoEvent => p # Acknowledged
    /\ catalog' = [catalog EXCEPT ![e] = p]
    /\ IF AlreadyProcessed(ledger[e])
       THEN /\ response' = Answer(e, "already_processed")
            /\ UNCHANGED deliveries
       ELSE /\ deliveries' = deliveries (+) SetToBag(
                  {IF ~ledger[e].present THEN InFlight("insert", e, p)
                                         ELSE InFlight("handle", e, p)})
            /\ response' = NoResponse
    /\ UNCHANGED <<subs, payments, ledger, applied>>
    /\ UNCHANGED <<dispatchVars, oauthVars>>

\* stripe_webhook from its first line: the body and the signature header are
\* verified, and only a verified event reaches the ledger lookup
WebhookDelivery(e, p, payload_ok, sig_ok) ==
    IF construct_webhook_event(payload_ok, sig_ok) = "event"
    THEN WebhookReceive(e, p)
    ELSE WebhookRejected(e)

\* db.add(webhook_event); db.commit(): outside the try, so a duplicate
\* stripe_event_id (unique=True) ends the request with a 500
WebhookInsert(r) ==
    /\ r.pc = "insert"
    /\ IF ledger[r.ev].present
       THEN /\ deliveries' = Leave(r)
            /\ response' = Answer(r.ev, "500")
            /\ UNCHANGED ledger
       ELSE /\ ledger' = [ledger EXCEPT ![r.ev] = NewLedgerRow]
            /\ deliveries' = Move(r, InFlight("handle", r.ev, r.data))
            /\ response' = NoResponse
    /\ UNCHANGED <<subs, payments, catalog, applied>>
    /\ UNCHANGED <<dispatchVars, oauthVars>>

\* handler(event['data'], db), and the except branch when it raises:
\* processing_error is set and db.commit() flushes whatever the session holds;
\* after a failed commit the session is inactive and that commit raises too.
WebhookHandle(r) ==
    LET h == RunHandler(r.data, subs, payments) IN
    /\ r.pc = "handle"
    /\ CASE h.outcome = "ok" ->
              /\ subs' = h.subs
              /\ payments' = h.payments
              /\ deliveries' = Move(r, InFlight("mark", r.ev, r.data))
              /\ response' = NoResponse
              /\ UNCHANGED ledger
         [] h.outcome = "raised" ->
              /\ subs' = h.subs
              /\ payments' = h.payments
              /\ ledger' = [ledger EXCEPT ![r.ev].error = TRUE]
              /\ deliveries' = Leave(r)
              /\ response' = Answer(r.ev, "500")
         [] OTHER ->
              /\ deliveries' = Leave(r)
              /\ response' = Answer(r.ev, "500")
              /\ UNCHANGED <<subs, payments, ledger>>
    /\ applied' = IF h.wrote THEN CountApplied(r.ev) ELSE applied
    /\ UNCHANGED catalog
    /\ UNCHANGED <<dispatchVars, oauthVars>>

\* webhook_event.processed = True; processed_at = utcnow(); db.commit()
WebhookMark(r) ==
    /\ r.pc = "mark"
    /\ ledger' = [ledger EXCEPT ![r.ev].processed = TRUE]
    /\ deliveries' = Leave(r)
    /\ response' = Answer(r.ev, "success")
    /\ catalog' = [catalog EXCEPT ![r.ev] = Acknowledged]
    /\ UNCHANGED <<subs, payments, applied>>
    /\ UNCHANGED <<dispatchVars, oauthVars>>

\* The provider is done with an acknowledged event that no request carries:
\* its ledger row stays in the table for good, and the model stops following
\* it, so that the name e can stand for a fresh event id.
ProviderRetire(e) ==
    /\ catalog[e] = Acknowledged
    /\ \A r \in BagToSet(deliveries) : r.ev # e
    /\ ledger' = [ledger EXCEPT ![e] = NoLedgerRow]
    /\ catalog' = [catalog EXCEPT ![e] = NoEvent]
    /\ applied' = [applied EXCEPT ![e] = 0]
    /\ response' = NoResponse
    /\ UNCHANGED <<subs, payments, deliveries>>
    /\ UNCHANGED <<dispatchVars, oauthVars>>

(***************************************************************************)
(* main.py: the client-facing billing endpoints.                           *)
(***************************************************************************)
\* The answer of a billing endpoint (no webhook event: ev is 0)
EndpointAnswer(r) == Answer(0, r)

\* create_checkout_session: the Subscription row is created when absent, after
\* StripeService.create_customer; a user who is pro is refused; then the
\* checkout session is created.  outcome says which Stripe call raises.
CreateCheckout(u, outcome) ==
    LET created == ~subs[u].present /\ outcome # "no_customer"
        row == IF created THEN NewSubscription ELSE subs[u]
    IN
    /\ subs' = [subs EXCEPT ![u] = row]
    /\ response' = IF ~row.present THEN EndpointAnswer("500")
                   ELSE IF row.status = "active" /\ row.plan_type = "pro"
                   THEN EndpointAnswer("400")
                   ELSE IF outcome = "ok" THEN EndpointAnswer("200")
                   ELSE EndpointAnswer("500")
    /\ UNCHANGED <<payments, ledger, catalog, deliveries, applied>>
    /\ UNCHANGED <<dispatchVars, oauthVars>>

\* create_portal_session: reads the Subscription and writes nothing
CreatePortal(u, ok) ==
    /\ response' = IF ~subs[u].present THEN EndpointAnswer("404")
                   ELSE IF ok THEN EndpointAnswer("200")
                   ELSE EndpointAnswer("500")
    /\ UNCHANGED <<subs, payments, ledger, catalog, deliveries, applied>>
    /\ UNCHANGED <<dispatchVars, oauthVars>>

\* An update that cancels, or revives, the subscription at once
SetFlagAndStatus(row, flag) ==
    [row EXCEPT !.cancel_at_period_end = flag,
                !.status = IF flag THEN "canceled" ELSE "active"]

\* `subscription.cancel_at_period_end = ...; db.commit()`: the UPDATE carries
\* this one column
SetCancelAtPeriodEnd(row, flag) == [row EXCEPT !.cancel_at_period_end = flag]

\* cancel_subscription: 404, 400, or the request to Stripe and, when Stripe
\* accepts it, the flag; when it raises, db.rollback() and 500
CancelSubscription(u, ok) ==
    /\ IF ~subs[u].present \/ subs[u].stripe_subscription_id = 0
       THEN /\ response' = EndpointAnswer("404")
            /\ UNCHANGED subs
       ELSE IF subs[u].status # "active"
       THEN /\ response' = EndpointAnswer("400")
            /\ UNCHANGED subs
       ELSE IF ok
       THEN /\ subs' = [subs EXCEPT ![u] = SetCancelAtPeriodEnd(@, TRUE)]
            /\ response' = EndpointAnswer("cancel_200")
       ELSE /\ response' = EndpointAnswer("500")
            /\ UNCHANGED subs
    /\ UNCHANGED <<payments, ledger, catalog, deliveries, applied>>
    /\ UNCHANGED <<dispatchVars, oauthVars>>

\* reactivate_subscription: 404, 400, or the request to Stripe and, when
\* Stripe accepts it, the flag; when it raises, db.rollback() and 500
ReactivateSubscription(u, ok) ==
    /\ IF ~subs[u].present \/ subs[u].stripe_subscription_id = 0
       THEN /\ response' = EndpointAnswer("404")
            /\ UNCHANGED subs
       ELSE IF ~subs[u].cancel_at_period_end
       THEN /\ response' = EndpointAnswer("400")
            /\ UNCHANGED subs
       ELSE IF ok
       THEN /\ subs' = [subs EXCEPT ![u] = SetCancelAtPeriodEnd(@, FALSE)]
            /\ response' = EndpointAnswer("reactivate_200")
       ELSE /\ response' = EndpointAnswer("500")
            /\ UNCHANGED subs
    /\ UNCHANGED <<payments, ledger, catalog, deliveries, applied>>
    /\ UNCHANGED <<dispatchVars, oauthVars>>

\* get_payment_history: reads the Subscription and its PaymentHistory rows
GetPaymentHistory(u) ==
    /\ response' = EndpointAnswer("200")
    /\ UNCHANGED <<subs, payments, ledger, catalog, deliveries, applied>>
    /\ UNCHANGED <<dispatchVars, oauthVars>>

\* require_pro_plan, the dependency of a pro route: 403 unless
\* current_user.is_pro, read from the Subscription when the request is served
RequireProPlan(u) ==
    /\ response' = IF is_pro(subs, u) THEN EndpointAnswer("pro_200")
                   ELSE EndpointAnswer("403")
    /\ UNCHANGED <<subs, payments, ledger, catalog, deliveries, applied>>
    /\ UNCHANGED <<dispatchVars, oauthVars>>

(***************************************************************************)
(* models.py: ScheduledPost; redis_client.py: the rate limiter.            *)
(***************************************************************************)
PostIds == 1..MaxPosts

\* The user whose posts are dispatched, and every user who may send a request
Owner == 1

Requesters == {1, 2}

X_API_POST_LIMIT == 100

X_API_WINDOW == 900

\* `reset_in + 60` in post_scheduled_tweet
RESCHEDULE_BACKOFF == 60

\* A row: 0 is NULL in x_post_id and posted_at; too_long says len(content) > 280;
\* deleted marks an id whose row was deleted (ids are never reused).
NoPost ==
    [present |-> FALSE, deleted |-> FALSE, status |-> "pending", scheduled_for |-> 0,
     posted_at |-> 0, x_post_id |-> 0, error_message |-> "null", too_long |-> FALSE]

DeletedPost == [NoPost EXCEPT !.deleted = TRUE]

\* ScheduledPost(user_id, post_id, content, scheduled_for, status="pending")
NewPost(when, long) ==
    [NoPost EXCEPT !.present = TRUE, !.scheduled_for = when, !.too_long = long]

\* The key is absent: redis GET answers None and TTL answers -2
NoKey == [count |-> 0, ttl |-> 0]

\* A limiter that allows every call
AlwaysAllowed(key, limit) == <<TRUE, key.count>>

\* A limiter that still allows a call with the counter at the limit
check_above_limit(key, limit) == <<key.count <= limit, key.count>>

\* RateLimiter.check_rate_limit: (allowed, current_count), a read
check_rate_limit(key, limit) ==
    IF key.count = 0 THEN <<TRUE, 0>>
    ELSE IF key.count >= limit THEN <<FALSE, key.count>>
    ELSE <<TRUE, key.count>>

\* An increment that sets no expiry
incr_without_expire(key, window) == [count |-> key.count + 1, ttl |-> key.ttl]

\* An increment that renews the expiry and leaves the count
expire_only(key, window) == [count |-> key.count, ttl |-> window]

\* RateLimiter.increment_rate_limit: INCR and EXPIRE in one MULTI/EXEC pipeline
increment_rate_limit(key, window) == [count |-> key.count + 1, ttl |-> window]

\* RateLimiter.get_ttl: `ttl if ttl > 0 else None` (None is 0 here)
get_ttl(key) == IF key.count > 0 /\ key.ttl > 0 THEN key.ttl ELSE 0

\* Redis drops a key whose time to live has run out
Expire(key, seconds) ==
    IF key.count > 0 /\ key.ttl > seconds
    THEN [key EXCEPT !.ttl = @ - seconds]
    ELSE NoKey

\* The UPDATE a session flush sends for a loaded row: the columns whose value
\* differs from the value loaded, and no others.
Flush(row, snap, new) ==
    [f \in DOMAIN row |-> IF new[f] # snap[f] THEN new[f] ELSE row[f]]

(***************************************************************************)
(* celery_app.py: post_scheduled_tweet, one action per access to the       *)
(* database, to Redis or to the X API.  A running task is                  *)
(* [pc, id, snap, reset_in, tweet, stamp]: snap is the row as loaded,      *)
(* tweet the id the X API returned, stamp the utcnow() of posted_at.       *)
(***************************************************************************)
Task(i, eta) == [id |-> i, eta |-> eta]

Worker(pc, i, snap, reset, tweet, stamp) ==
    [pc |-> pc, id |-> i, snap |-> snap, reset_in |-> reset, tweet |-> tweet,
     stamp |-> stamp]

WorkersAt(pc) == {w \in BagToSet(workers) : w.pc = pc}

WorkerLeaves(w) == workers (-) SetToBag({w})

WorkerMoves(w, w2) == (workers (-) SetToBag({w})) (+) SetToBag({w2})

InDispatch == BagCardinality(tasks) + BagCardinality(workers)

\* A status test that never finds a row posted
NeverPosted(row) == FALSE

\* `if scheduled_post.status == "posted": return already_posted`
AlreadyPosted(row) == row.status = "posted"

\* A query that finds a row under every id
AnyRowFound(row) == TRUE

\* `scheduled_post = db.query(ScheduledPost).filter(...).first()` is not None
RowFound(row) == row.present

\* 1. the task starts at its ETA and loads the row (and the user, who exists
\* and holds a token); without a row it raises ValueError "... not found"
TaskStart(t) ==
    /\ now >= t.eta
    /\ tasks' = tasks (-) SetToBag({t})
    /\ IF ~RowFound(posts[t.id])
       THEN /\ response' = Answer(t.id, "not_found")
            /\ UNCHANGED workers
       ELSE IF AlreadyPosted(posts[t.id])
       THEN /\ response' = Answer(t.id, "already_posted")
            /\ UNCHANGED workers
       ELSE /\ workers' = workers (+) SetToBag({Worker("check", t.id, posts[t.id], 0, 0, 0)})
            /\ response' = NoResponse
    /\ UNCHANGED <<now, posts, rate, deletes, tweets, blocked>>
    /\ UNCHANGED <<billingVars, oauthVars>>

\* 3. check_x_post_rate_limit: the GET of the counter
RateCheck(w) ==
    LET allowed == check_rate_limit(rate, X_API_POST_LIMIT)[1] IN
    /\ w.pc = "check"
    /\ workers' = WorkerMoves(w, [w EXCEPT !.pc = IF allowed THEN "post" ELSE "ttl"])
    /\ blocked' = IF allowed THEN blocked ELSE [blocked EXCEPT ![w.id] = TRUE]
    /\ response' = NoResponse
    /\ UNCHANGED <<now, posts, rate, tasks, deletes, tweets>>
    /\ UNCHANGED <<billingVars, oauthVars>>

\* check_x_post_rate_limit, not allowed: the TTL of the counter.  With
\* reset_in None, `reset_in + 60` raises and the task ends.
RateTtl(w) ==
    LET reset_in == get_ttl(rate) IN
    /\ w.pc = "ttl"
    /\ IF reset_in = 0
       THEN /\ workers' = WorkerLeaves(w)
            /\ response' = Answer(w.id, "task_failed")
       ELSE /\ workers' = WorkerMoves(w, [w EXCEPT !.pc = "resched", !.reset_in = reset_in])
            /\ response' = NoResponse
    /\ UNCHANGED <<now, posts, rate, tasks, deletes, tweets, blocked>>
    /\ UNCHANGED <<billingVars, oauthVars>>

\* The retry the blocked branch asks for: `raise self.retry(...)` in a task
\* that is not bound, so the name self is undefined, the call raises
\* NameError and no message is sent.
RetryMessages(w, eta) == EmptyBag

\* scheduled_for = utcnow() + reset_in + 60; db.commit(); then the retry
Reschedule(w) ==
    LET new == [w.snap EXCEPT !.scheduled_for = now + w.reset_in + RESCHEDULE_BACKOFF] IN
    /\ w.pc = "resched"
    /\ posts' = IF posts[w.id].present
                THEN [posts EXCEPT ![w.id] = Flush(@, w.snap, new)]
                ELSE posts
    /\ workers' = WorkerLeaves(w)
    /\ tasks' = tasks (+) RetryMessages(w, now + w.reset_in + RESCHEDULE_BACKOFF)
    /\ response' = Answer(w.id, "task_failed")
    /\ UNCHANGED <<now, rate, deletes, tweets, blocked>>
    /\ UNCHANGED <<billingVars, oauthVars>>

\* An except branch that re-raises and writes nothing
LeaveUnmarked(w, msg) ==
    /\ posts' = posts
    /\ workers' = WorkerLeaves(w)
    /\ response' = Answer(w.id, "task_failed")

\* The except branch of the inner try: status failed, error_message, commit.
\* The UPDATE of a row that is gone raises, and nothing is written.
MarkFailed(w, msg) ==
    LET new == [w.snap EXCEPT !.status = "failed", !.error_message = msg] IN
    /\ posts' = IF posts[w.id].present
                THEN [posts EXCEPT ![w.id] = Flush(@, w.snap, new)]
                ELSE posts
    /\ workers' = WorkerLeaves(w)
    /\ response' = Answer(w.id, "task_failed")

\* A client without the length check
NeverTooLong(row) == FALSE

\* XAPIClient.post_tweet: the length check before any call
TooLong(row) == row.too_long

\* 4. post_tweet: refused locally, or the X API creates the tweet, or it fails
PostTweet(w, ok) ==
    /\ w.pc = "post"
    /\ IF TooLong(w.snap)
       THEN /\ MarkFailed(w, "length")
            /\ UNCHANGED tweets
       ELSE IF ok
       THEN /\ tweets' = [tweets EXCEPT ![w.id] = Min(@ + 1, MaxTweets)]
            /\ workers' = WorkerMoves(w, [w EXCEPT !.pc = "incr",
                                                   !.tweet = tweets'[w.id],
                                                   !.stamp = now])
            /\ response' = NoResponse
            /\ UNCHANGED posts
       ELSE /\ MarkFailed(w, "api")
            /\ UNCHANGED tweets
    /\ UNCHANGED <<now, rate, tasks, deletes, blocked>>
    /\ UNCHANGED <<billingVars, oauthVars>>

\* increment_x_post_count(user.id)
IncrementCount(w) ==
    /\ w.pc = "incr"
    /\ rate' = increment_rate_limit(rate, X_API_WINDOW)
    /\ workers' = WorkerMoves(w, [w EXCEPT !.pc = "commit"])
    /\ response' = NoResponse
    /\ UNCHANGED <<now, posts, tasks, deletes, tweets, blocked>>
    /\ UNCHANGED <<billingVars, oauthVars>>

\* 5. status posted, x_post_id, posted_at, error_message None; db.commit()
CommitPosted(w) ==
    LET new == [w.snap EXCEPT !.status = "posted", !.x_post_id = w.tweet,
                              !.posted_at = w.stamp, !.error_message = "null"]
    IN
    /\ w.pc = "commit"
    /\ IF posts[w.id].present
       THEN /\ posts' = [posts EXCEPT ![w.id] = Flush(@, w.snap, new)]
            /\ response' = Answer(w.id, "task_done")
       ELSE /\ UNCHANGED posts
            /\ response' = Answer(w.id, "task_failed")
    /\ workers' = WorkerLeaves(w)
    /\ UNCHANGED <<now, rate, tasks, deletes, tweets, blocked>>
    /\ UNCHANGED <<billingVars, oauthVars>>

\* The broker delivers a queued message a second time
DuplicateTask(t) ==
    /\ InDispatch < MaxTasks
    /\ tasks' = tasks (+) SetToBag({t})
    /\ response' = NoResponse
    /\ UNCHANGED <<now, posts, rate, workers, deletes, tweets, blocked>>
    /\ UNCHANGED <<billingVars, oauthVars>>

(***************************************************************************)
(* main.py: schedule_post and delete_scheduled.                            *)
(***************************************************************************)
FreeIds == {i \in PostIds : ~posts[i].present /\ ~posts[i].deleted}

\* schedule_post: the row is committed, then the task is queued with its ETA;
\* when queueing raises, db.rollback() finds nothing to undo
SchedulePost(long, queued) ==
    /\ FreeIds # {}
    /\ now + TickSeconds <= MaxTime
    /\ LET i == CHOOSE x \in FreeIds : \A y \in FreeIds : x <= y
           when == now + TickSeconds
       IN  /\ posts' = [posts EXCEPT ![i] = NewPost(when, long)]
           /\ IF queued
              THEN /\ InDispatch < MaxTasks
                   /\ tasks' = tasks (+) SetToBag({Task(i, when)})
                   /\ response' = Answer(i, "200")
              ELSE /\ response' = Answer(i, "500")
                   /\ UNCHANGED tasks
    /\ UNCHANGED <<now, rate, workers, deletes, tweets, blocked>>
    /\ UNCHANGED <<billingVars, oauthVars>>

\* An endpoint that refuses no delete request
NoRefusal(q, row) == "none"

\* delete_scheduled: the two refusals.  The query filters by id and by
\* user_id == current_user.id, and finds nothing for another user's row.
DeleteRefusal(q, row) ==
    IF ~row.present \/ q # Owner THEN "404"
    ELSE IF row.status = "posted" THEN "400"
    ELSE "none"

\* delete_scheduled up to the refusals: the row is loaded for deletion
DeleteLoad(q, i) ==
    /\ BagCardinality(deletes) < MaxDeletes
    /\ IF DeleteRefusal(q, posts[i]) # "none"
       THEN /\ response' = Answer(i, DeleteRefusal(q, posts[i]))
            /\ UNCHANGED deletes
       ELSE /\ deletes' = deletes (+) SetToBag({[id |-> i]})
            /\ response' = NoResponse
    /\ UNCHANGED <<now, posts, rate, tasks, workers, tweets, blocked>>
    /\ UNCHANGED <<billingVars, oauthVars>>

\* db.delete(scheduled_post); db.commit()
DeleteCommit(r) ==
    /\ posts' = [posts EXCEPT ![r.id] = DeletedPost]
    /\ deletes' = deletes (-) SetToBag({r})
    /\ response' = Answer(r.id, "200")
    /\ UNCHANGED <<now, rate, tasks, workers, tweets, blocked>>
    /\ UNCHANGED <<billingVars, oauthVars>>

StateIds == 1..MaxStates

\* A state value: issued says connect_x_account has returned it, ttl > 0 that
\* its key is in Redis
NoState == [issued |-> FALSE, ttl |-> 0]

\* Redis drops a state key whose time to live has run out
ExpireState(st, seconds) ==
    IF st.ttl > seconds THEN [st EXCEPT !.ttl = @ - seconds] ELSE [st EXCEPT !.ttl = 0]

\* Time passes: the clock, and the time to live of every Redis key
Tick ==
    /\ now + TickSeconds <= MaxTime
    /\ now' = now + TickSeconds
    /\ rate' = Expire(rate, TickSeconds)
    /\ states' = [s \in StateIds |-> ExpireState(states[s], TickSeconds)]
    /\ response' = NoResponse
    /\ UNCHANGED <<posts, tasks, workers, deletes, tweets, blocked>>
    /\ UNCHANGED <<callbacks, users, exchanges, pkce>>
    /\ UNCHANGED billingVars

\* The counter when the run starts: absent, or a window the user has all
\* but used up
RateAtStart ==
    {NoKey} \cup {[count |-> c, ttl |-> X_API_WINDOW] :
                    c \in (X_API_POST_LIMIT - InitHeadroom)..X_API_POST_LIMIT}

InitDispatch ==
    /\ now = 0
    /\ posts = [i \in PostIds |-> NoPost]
    /\ tasks = EmptyBag
    /\ workers = EmptyBag
    /\ deletes = EmptyBag
    /\ tweets = [i \in PostIds |-> 0]
    /\ blocked = [i \in PostIds |-> FALSE]

NextDispatch ==
    \/ \E long \in BOOLEAN, queued \in BOOLEAN : SchedulePost(long, queued)
    \/ \E t \in BagToSet(tasks) : DuplicateTask(t)
    \/ \E t \in BagToSet(tasks) : TaskStart(t)
    \/ \E w \in WorkersAt("check") : RateCheck(w)
    \/ \E w \in WorkersAt("ttl") : RateTtl(w)
    \/ \E w \in WorkersAt("resched") : Reschedule(w)
    \/ \E w \in WorkersAt("post"), ok \in BOOLEAN : PostTweet(w, ok)
    \/ \E w \in WorkersAt("incr") : IncrementCount(w)
    \/ \E w \in WorkersAt("commit") : CommitPosted(w)
    \/ \E q \in Requesters, i \in PostIds : DeleteLoad(q, i)
    \/ \E r \in BagToSet(deletes) : DeleteCommit(r)
    \/ Tick

(***************************************************************************)
(* main.py: connect_x_account and oauth_callback; models.py: User.         *)
(***************************************************************************)
\* The X accounts that log in, and the handles get_me may report for them
XAccounts == {1, 2}

Handles == {1, 2}

\* redis_client.setex(f"oauth_state:{state}", 600, code_verifier)
OAUTH_STATE_TTL == 600

\* token_data.get("expires_in", 7200)
EXPIRES_IN == 7200

\* A store that keeps every state it was given, used or expired
StateIssued(s) == s \in StateIds /\ states[s].issued

\* redis_client.get(f"oauth_state:{state}"): is there a code_verifier.  State
\* 0 stands for a value connect_x_account never returned.
StateStored(s) == s \in StateIds /\ states[s].ttl > 0

\* The tokens X grants in the exchange made for state s
Tokens == {<<k, s>> : k \in {"access", "refresh"}, s \in StateIds}

\* A helper that stores the token as it is
store_plaintext(t) == t

\* encryption.encrypt_token, kept apart from the plaintext
encrypt_token(t) == <<"fernet", t>>

\* encryption.decrypt_token: Fernet.decrypt raises InvalidToken for a string
\* that the cipher did not produce
decrypt_token(c) == IF c[1] = "fernet" THEN c[2] ELSE <<"InvalidToken", 0>>

\* User(username, x_user_id, x_username, tokens, expiry); s is the state whose
\* exchange granted the tokens
UserRow(x, h, s, t) ==
    [username |-> h, x_user_id |-> x, x_username |-> h,
     x_access_token |-> encrypt_token(<<"access", s>>),
     x_refresh_token |-> encrypt_token(<<"refresh", s>>),
     x_token_expires_at |-> t + EXPIRES_IN]

\* A users table without the constraint on x_user_id
NoUniqueXUserId(U) == TRUE

\* models.User: x_user_id unique=True
UniqueXUserId(U) ==
    \A i, j \in 1..Len(U) : U[i].x_user_id = U[j].x_user_id => i = j

\* models.User: username unique=True
UniqueUsername(U) ==
    \A i, j \in 1..Len(U) : U[i].username = U[j].username => i = j

\* db.query(User).filter(User.x_user_id == x_user_id).first(): row id or 0
UserByXUserId(U, x) ==
    IF \E i \in 1..Len(U) : U[i].x_user_id = x
    THEN CHOOSE i \in 1..Len(U) :
            /\ U[i].x_user_id = x
            /\ \A j \in 1..Len(U) : U[j].x_user_id = x => i <= j
    ELSE 0

Callback(pc, s, x, h, found) ==
    [pc |-> pc, state |-> s, x |-> x, handle |-> h, found |-> found]

CallbacksAt(pc) == {c \in BagToSet(callbacks) : c.pc = pc}

CallbackLeaves(c) == callbacks (-) SetToBag({c})

CallbackMoves(c, c2) == (callbacks (-) SetToBag({c})) (+) SetToBag({c2})

\* connect_x_account: a fresh random state, stored for 600 seconds
ConnectX ==
    /\ \E s \in StateIds : ~states[s].issued
    /\ LET s == CHOOSE x \in StateIds :
                   ~states[x].issued /\ \A y \in StateIds : ~states[y].issued => x <= y
       IN  /\ states' = [states EXCEPT ![s] = [issued |-> TRUE, ttl |-> OAUTH_STATE_TTL]]
           /\ response' = Answer(s, "200")
    /\ UNCHANGED <<callbacks, users, exchanges>>
    /\ UNCHANGED <<billingVars, dispatchVars, pkce>>

\* oauth_callback: the GET of the state key, and the 400 when it is not there
CallbackGet(s) ==
    /\ BagCardinality(callbacks) < MaxCallbacks
    /\ IF StateStored(s)
       THEN /\ callbacks' = callbacks (+) SetToBag({Callback("delete", s, 0, 0, 0)})
            /\ response' = NoResponse
       ELSE /\ response' = Answer(s, "400_invalid_state")
            /\ UNCHANGED callbacks
    /\ UNCHANGED <<states, users, exchanges>>
    /\ UNCHANGED <<billingVars, dispatchVars, pkce>>

\* redis_client.delete(f"oauth_state:{state}"), a second Redis command
CallbackDelete(c) ==
    /\ c.pc = "delete"
    /\ states' = [states EXCEPT ![c.state].ttl = 0]
    /\ callbacks' = CallbackMoves(c, [c EXCEPT !.pc = "exchange"])
    /\ response' = NoResponse
    /\ UNCHANGED <<users, exchanges>>
    /\ UNCHANGED <<billingVars, dispatchVars, pkce>>

\* A try block in which no call raises
NothingRaises(outcome) == FALSE

\* exchange_code_for_token raises (network error, raise_for_status) or get_me
\* raises, and `except Exception` of oauth_callback catches it
ExchangeRaises(outcome) == outcome # "granted"

\* exchange_code_for_token, then get_me: X rejects the code, or grants tokens
\* and get_me fails, or grants tokens and reports account x with handle h
CallbackExchange(c, outcome, x, h) ==
    /\ c.pc = "exchange"
    /\ exchanges' = IF outcome = "rejected" THEN exchanges
                    ELSE [exchanges EXCEPT ![c.state] = Min(@ + 1, MaxExchanges)]
    /\ IF ~ExchangeRaises(outcome)
       THEN /\ callbacks' = CallbackMoves(c, [c EXCEPT !.pc = "lookup", !.x = x, !.handle = h])
            /\ response' = NoResponse
       ELSE /\ callbacks' = CallbackLeaves(c)
            /\ response' = Answer(c.state, "400_exchange_failed")
    /\ UNCHANGED <<states, users>>
    /\ UNCHANGED <<billingVars, dispatchVars, pkce>>

\* `user = db.query(User).filter(User.x_user_id == x_user_id).first()`
CallbackLookup(c) ==
    /\ c.pc = "lookup"
    /\ callbacks' = CallbackMoves(c, [c EXCEPT !.pc = "commit",
                                               !.found = UserByXUserId(users, c.x)])
    /\ response' = NoResponse
    /\ UNCHANGED <<states, users, exchanges>>
    /\ UNCHANGED <<billingVars, dispatchVars, pkce>>

\* The INSERT the commit sends when no row was found; IntegrityError when a
\* unique constraint refuses it
InsertUser(U, row) ==
    LET U2 == Append(U, row) IN
    IF UniqueXUserId(U2) /\ UniqueUsername(U2) THEN U2 ELSE U

\* The UPDATE the commit sends for the row found
UpdateUser(U, id, row) ==
    [U EXCEPT ![id].x_access_token = row.x_access_token,
              ![id].x_refresh_token = row.x_refresh_token,
              ![id].x_token_expires_at = row.x_token_expires_at,
              ![id].x_username = row.x_username]

\* db.add(user) or the four assignments; db.commit(); then
\* analyze_user_voice.delay, which raises when the broker is down
CallbackCommit(c, queued) ==
    LET row == UserRow(c.x, c.handle, c.state, now)
        U2 == IF c.found = 0 THEN InsertUser(users, row)
              ELSE UpdateUser(users, c.found, row)
    IN
    /\ c.pc = "commit"
    /\ users' = U2
    /\ response' = IF c.found = 0 /\ U2 = users
                   THEN Answer(c.state, "400_exchange_failed")
                   ELSE IF queued THEN Answer(c.state, "200")
                   ELSE Answer(c.state, "400_exchange_failed")
    /\ callbacks' = CallbackLeaves(c)
    /\ UNCHANGED <<states, exchanges>>
    /\ UNCHANGED <<billingVars, dispatchVars, pkce>>

\* No pair was generated yet
NoPkce == [verifier |-> <<>>, challenge |-> <<>>]

InitOAuth ==
    /\ states = [s \in StateIds |-> NoState]
    /\ callbacks = EmptyBag
    /\ users = <<>>
    /\ exchanges = [s \in StateIds |-> 0]
    /\ pkce = NoPkce

NextOAuth ==
    \/ ConnectX
    \/ \E s \in StateIds \cup {0} : CallbackGet(s)
    \/ \E c \in CallbacksAt("delete") : CallbackDelete(c)
    \/ \E c \in CallbacksAt("exchange"), o \in {"granted", "rejected", "no_profile"},
          x \in XAccounts, h \in Handles : CallbackExchange(c, o, x, h)
    \/ \E c \in CallbacksAt("lookup") : CallbackLookup(c)
    \/ \E c \in CallbacksAt("commit"), queued \in BOOLEAN : CallbackCommit(c, queued)
    \/ Tick

(***************************************************************************)
(* auth.py: generate_pkce_pair.  A string is the sequence of its character *)
(* codes, bytes are numbers 0..255.  The 32 bytes of secrets.token_bytes   *)
(* are drawn from a family of sequences that covers all 64 base64 digits.  *)
(***************************************************************************)
PAD == 61

\* The alphabet of base64.urlsafe_b64encode: A-Z a-z 0-9 - _
UrlSafeAlphabet(i) ==
    IF i < 26 THEN 65 + i
    ELSE IF i < 52 THEN 97 + (i - 26)
    ELSE IF i < 62 THEN 48 + (i - 52)
    ELSE IF i = 62 THEN 45
    ELSE 95

\* The four 6-bit digits of three bytes
Sextets(b1, b2, b3) ==
    <<b1 \div 4, (b1 % 4) * 16 + b2 \div 16, (b2 % 16) * 4 + b3 \div 64, b3 % 64>>

\* base64.urlsafe_b64encode(bs): four characters for every three bytes, the
\* last group filled up with "="
urlsafe_b64encode(bs) ==
    LET n == Len(bs)
        full == n \div 3
        head == [k \in 1..(4 * full) |->
                    LET g == (k - 1) \div 4 IN
                    UrlSafeAlphabet(Sextets(bs[3 * g + 1], bs[3 * g + 2],
                                            bs[3 * g + 3])[((k - 1) % 4) + 1])]
        tail == IF n % 3 = 0 THEN <<>>
                ELSE IF n % 3 = 1
                THEN LET d == Sextets(bs[n], 0, 0) IN
                     <<UrlSafeAlphabet(d[1]), UrlSafeAlphabet(d[2]), PAD, PAD>>
                ELSE LET d == Sextets(bs[n - 1], bs[n], 0) IN
                     <<UrlSafeAlphabet(d[1]), UrlSafeAlphabet(d[2]),
                       UrlSafeAlphabet(d[3]), PAD>>
    IN  head \o tail

\* A strip that removes nothing
keep_padding(str) == str

\* str.rstrip('='): the string without its trailing "=" characters
rstrip_padding(str) ==
    LET kept == {k \in 1..Len(str) : str[k] # PAD}
        last == IF kept = {} THEN 0 ELSE CHOOSE k \in kept : \A j \in kept : j <= k
    IN  SubSeq(str, 1, last)

\* hashlib.sha256(...).digest(): 32 bytes.  SHA-256 itself is not computed:
\* this function of the message stands for it.
DIGEST_SIZE == 32

sha256(m) ==
    [i \in 1..DIGEST_SIZE |-> (m[((i - 1) % Len(m)) + 1] * 31 + 17 * i + Len(m)) % 256]

\* secrets.token_bytes(32)
TOKEN_BYTES == 32

Seed(a, b) == [i \in 1..TOKEN_BYTES |-> (23 * b + 37 * a * (i - 1)) % 256]

\* generate_pkce_pair on the random bytes bs; a verifier is ASCII, so its
\* utf-8 encoding is the sequence of its character codes
generate_pkce_pair(bs) ==
    LET code_verifier == rstrip_padding(urlsafe_b64encode(bs))
        code_challenge == rstrip_padding(urlsafe_b64encode(sha256(code_verifier)))
    IN  [verifier |-> code_verifier, challenge |-> code_challenge]

\* One call of generate_pkce_pair (by get_x_oauth_url)
GeneratePkce(a, b) ==
    /\ pkce' = generate_pkce_pair(Seed(a, b))
    /\ response' = NoResponse
    /\ UNCHANGED <<states, callbacks, users, exchanges>>
    /\ UNCHANGED <<billingVars, dispatchVars>>

NextPkce == \E a \in 0..MaxStride, b \in 0..MaxOffset : GeneratePkce(a, b)

InitBilling ==
    /\ subs = [u \in Users |-> NoSubscription]
    /\ payments = <<>>
    /\ ledger = [e \in EventIds |-> NoLedgerRow]
    /\ catalog = [e \in EventIds |-> NoEvent]
    /\ deliveries = EmptyBag
    /\ response = NoResponse
    /\ applied = [e \in EventIds |-> 0]

NextBilling ==
    \/ \E e \in EventIds, p \in Payloads \cup {Acknowledged} :
            WebhookDelivery(e, p, TRUE, TRUE)
    \/ \E e \in EventIds, payload_ok \in BOOLEAN, sig_ok \in BOOLEAN :
            /\ ~(payload_ok /\ sig_ok)
            /\ WebhookDelivery(e, catalog[e], payload_ok, sig_ok)
    \/ \E r \in AtPc("insert") : WebhookInsert(r)
    \/ \E r \in AtPc("handle") : WebhookHandle(r)
    \/ \E r \in AtPc("mark") : WebhookMark(r)
    \/ \E e \in EventIds : ProviderRetire(e)
    \/ \E u \in Users, o \in {"ok", "no_customer", "no_session"} : CreateCheckout(u, o)
    \/ \E u \in Users, ok \in BOOLEAN : CreatePortal(u, ok)
    \/ \E u \in Users, ok \in BOOLEAN : CancelSubscription(u, ok)
    \/ \E u \in Users, ok \in BOOLEAN : ReactivateSubscription(u, ok)
    \/ \E u \in Users : RequireProPlan(u)
    \/ \E u \in Users : GetPaymentHistory(u)

Init == InitBilling /\ InitDispatch /\ InitOAuth /\ rate = NoKey

InitWindow == InitBilling /\ InitDispatch /\ InitOAuth /\ rate \in RateAtStart

SpecBilling == Init /\ [][NextBilling]_vars

SpecDispatch == InitWindow /\ [][NextDispatch]_vars

SpecOAuth == Init /\ [][NextOAuth]_vars

SpecPkce == Init /\ [][NextPkce]_vars

(***************************************************************************)
(* Properties.                                                             *)
(***************************************************************************)

\* C1: for each billing event id, the writes of its handler to Subscription
\* and PaymentHistory are committed at most once, whatever the deliveries of
\* that id (in sequence, concurrent, retried after a failure).
C1_HandlerAppliedAtMostOnce == \A e \in EventIds : applied[e] <= 1

\* C2: a delivery of an event whose ledger row is already processed is
\* answered already_processed in the step that reads the ledger: no handler
\* is started for it, and Subscription, PaymentHistory and the ledger stay
\* as they were.  (A delivery of e carries the payload the provider holds
\* for e.)
C2_ProcessedEventShortCircuits ==
    [][\A e \in EventIds :
          (ledger[e].present /\ ledger[e].processed /\ WebhookReceive(e, catalog'[e]))
          => /\ response' = Answer(e, "already_processed")
             /\ UNCHANGED <<subs, payments, ledger, deliveries, applied>>]_vars

C2_Witness ==
    \E e \in EventIds :
        /\ response = Answer(e, "already_processed")
        /\ ledger[e].present /\ ledger[e].processed
        /\ \E u \in Users : subs[u].present /\ subs[u].status = "active"

\* C3: in every reachable state a Subscription whose plan_type is pro has
\* status active.
C3_ProImpliesActive ==
    \A u \in Users :
        (subs[u].present /\ subs[u].plan_type = "pro") => subs[u].status = "active"

\* C4: once a ScheduledPost is posted, no step changes its status, x_post_id
\* or posted_at, and no step deletes it.
C4_PostedIsImmutable ==
    [][\A i \in PostIds :
          (posts[i].present /\ posts[i].status = "posted")
          => /\ posts'[i].present
             /\ posts'[i].status = "posted"
             /\ posts'[i].x_post_id = posts[i].x_post_id
             /\ posts'[i].posted_at = posts[i].posted_at]_vars

\* C5: for one ScheduledPost row, at most one create-post call to the X API
\* succeeds, however many dispatcher tasks run for the row.
C5_AtMostOneTweet == \A i \in PostIds : tweets[i] <= 1

\* C6: the user's post counter for the current window never exceeds the
\* limit of 100.
C6_CounterWithinLimit == rate.count <= X_API_POST_LIMIT

\* C7: a pending post that the rate limit has blocked is dispatched again:
\* while no running task holds it, a task for it is in the queue.
C7_BlockedIsDispatchedAgain ==
    \A i \in PostIds :
        (/\ posts[i].present
         /\ posts[i].status = "pending"
         /\ blocked[i]
         /\ \A w \in BagToSet(workers) : w.id # i)
        => \E t \in BagToSet(tasks) : t.id = i

\* C8: each OAuth state authorises at most one token exchange.
C8_OneExchangePerState == \A s \in StateIds : exchanges[s] <= 1

\* C9: a callback whose state is not in the store (never issued, already
\* consumed, or expired) is answered 400 in the step that reads the store:
\* no token exchange is started for it and no User row is created or changed.
C9_UnknownStateRejected ==
    [][\A s \in StateIds \cup {0} :
          (~(s \in StateIds /\ states[s].ttl > 0) /\ CallbackGet(s))
          => /\ response' = Answer(s, "400_invalid_state")
             /\ UNCHANGED <<users, exchanges, callbacks, states>>]_vars

C9_Witness ==
    \E s \in StateIds :
        /\ response = Answer(s, "400_invalid_state")
        /\ states[s].issued
        /\ exchanges[s] = 0
        /\ now >= OAUTH_STATE_TTL
        /\ callbacks = EmptyBag

\* C10: no two User rows have the same x_user_id, and a callback that found
\* the account's row overwrites that row's tokens, expiry and x_username.
C10_OneUserPerXAccount ==
    [][/\ \A i, j \in 1..Len(users') :
             users'[i].x_user_id = users'[j].x_user_id => i = j
       /\ \A c \in CallbacksAt("commit"), q \in BOOLEAN :
             (c.found # 0 /\ CallbackCommit(c, q))
             => /\ Len(users') = Len(users)
                /\ users'[c.found].x_access_token = encrypt_token(<<"access", c.state>>)
                /\ users'[c.found].x_refresh_token = encrypt_token(<<"refresh", c.state>>)
                /\ users'[c.found].x_token_expires_at = now + EXPIRES_IN
                /\ users'[c.found].x_username = c.handle
                /\ users'[c.found].x_user_id = users[c.found].x_user_id
                /\ users'[c.found].username = users[c.found].username]_vars

C10_Witness ==
    /\ Len(users) = 2
    /\ \E i \in 1..Len(users) :
          /\ users[i].x_username # users[i].username
          /\ users[i].x_access_token = encrypt_token(<<"access", 2>>)
    /\ response.resp = "200"

\* C11: when a handler raises partway through an event, the step that ends
\* the delivery leaves Subscription and PaymentHistory as they were before
\* the delivery; only the ledger row's error stamp may change.
C11_FailedHandlerPersistsNothing ==
    [][\A r \in AtPc("handle") :
          (RunHandler(r.data, subs, payments).outcome # "ok" /\ WebhookHandle(r))
          => /\ subs' = subs
             /\ payments' = payments
             /\ ledger' = [ledger EXCEPT ![r.ev].error = TRUE]]_vars

\* C12: when a handler raises, the event's ledger row is stamped with the
\* error and is not marked processed, so that the next delivery of the event
\* id runs the handler again.
C12_FailedHandlerStampsLedger ==
    [][\A r \in AtPc("handle") :
          (RunHandler(r.data, subs, payments).outcome # "ok" /\ WebhookHandle(r))
          => /\ ledger'[r.ev].present
             /\ ledger'[r.ev].error
             /\ ~ledger'[r.ev].processed]_vars

\* C13: a request whose signature or payload does not verify is answered 400
\* in its first step, before the ledger is read: no ledger row, Subscription
\* or PaymentHistory row is written and no handler is started.  (A delivery
\* of e carries the payload the provider holds for e.)
C13_UnverifiedRequestRejected ==
    [][\A e \in EventIds, payload_ok \in BOOLEAN, sig_ok \in BOOLEAN :
          (/\ ~(payload_ok /\ sig_ok)
           /\ WebhookDelivery(e, catalog'[e], payload_ok, sig_ok))
          => /\ response' = Answer(e, "400")
             /\ UNCHANGED <<subs, payments, ledger, deliveries, applied, catalog>>]_vars

C13_Witness ==
    \E e \in EventIds :
        /\ response = Answer(e, "400")
        /\ ~ledger[e].present
        /\ \E u \in Users : subs[u].present /\ subs[u].plan_type = "pro"
        /\ Len(payments) > 0

\* The requests whose handler is about to run for an event of type t that
\* names the subscription id of a local row
HandlingKnown(t) ==
    {r \in AtPc("handle") :
        r.data.type = t /\ SubscriptionByStripeId(subs, r.data.sub) # {}}

\* C14: customer.subscription.updated for a known Subscription overwrites
\* status, period and cancel flag with the provider's values, and leaves
\* plan_type pro exactly when the new status is active, free otherwise.
C14_UpdatedDerivesPlan ==
    [][\A r \in HandlingKnown("customer.subscription.updated") :
          (r.data.period # 0 /\ WebhookHandle(r))
          => \A u \in SubscriptionByStripeId(subs, r.data.sub) :
                /\ subs'[u].status = r.data.status
                /\ subs'[u].current_period = r.data.period
                /\ subs'[u].cancel_at_period_end = r.data.cancel
                /\ subs'[u].plan_type =
                      (IF r.data.status = "active" THEN "pro" ELSE "free")]_vars

\* C15: checkout.session.completed attaches the provider's subscription id
\* and activates the referenced Subscription only when it is incomplete; a
\* referenced Subscription in any other status is left as it is.
C15_CheckoutOnlyFromIncomplete ==
    [][\A r \in AtPc("handle") :
          (/\ r.data.type = "checkout.session.completed"
           /\ r.data.ref \in Users
           /\ subs[r.data.ref].present
           /\ WebhookHandle(r))
          => IF subs[r.data.ref].status = "incomplete"
             THEN /\ subs'[r.data.ref].status = "active"
                  /\ subs'[r.data.ref].stripe_subscription_id = r.data.sub
             ELSE subs'[r.data.ref] = subs[r.data.ref]]_vars

\* C16: customer.subscription.deleted for a known Subscription, whatever its
\* status, leaves it canceled, on the free plan and with a cancellation
\* time, and the owning user is not pro afterwards.
C16_DeletedCancels ==
    [][\A r \in HandlingKnown("customer.subscription.deleted") :
          WebhookHandle(r)
          => \A u \in SubscriptionByStripeId(subs, r.data.sub) :
                /\ subs'[u].status = "canceled"
                /\ subs'[u].plan_type = "free"
                /\ subs'[u].canceled_at
                /\ ~(subs'[u].status = "active" /\ subs'[u].plan_type = "pro")]_vars

C16_Witness ==
    \E r \in AtPc("mark"), u \in Users :
        /\ r.data.type = "customer.subscription.deleted"
        /\ r.data.sub = subs[u].stripe_subscription_id
        /\ subs[u].status = "canceled"
        /\ subs[u].plan_type = "free"
        /\ subs[u].canceled_at
        /\ subs[u].current_period # 0
        /\ ~is_pro(subs, u)

\* C17: invoice.paid for an invoice of a known Subscription appends exactly
\* one PaymentHistory row, with status succeeded, and leaves the
\* Subscription as it was (for an event no earlier delivery has applied).
C17_InvoicePaidAppendsRow ==
    [][\A r \in HandlingKnown("invoice.paid") :
          (~r.data.malformed /\ applied[r.ev] = 0 /\ WebhookHandle(r))
          => /\ Len(payments') = Len(payments) + 1
             /\ SubSeq(payments', 1, Len(payments)) = payments
             /\ payments'[Len(payments')].status = "succeeded"
             /\ subs' = subs]_vars

\* C18: invoice.payment_failed for an invoice of a known Subscription appends
\* exactly one PaymentHistory row, with status failed, and leaves the
\* Subscription past_due; so does a second such event for the same invoice
\* (each event being one that no earlier delivery has applied).
C18_PaymentFailedAppendsRow ==
    [][\A r \in HandlingKnown("invoice.payment_failed") :
          (~r.data.malformed /\ applied[r.ev] = 0 /\ WebhookHandle(r))
          => /\ Len(payments') = Len(payments) + 1
             /\ SubSeq(payments', 1, Len(payments)) = payments
             /\ payments'[Len(payments')].status = "failed"
             /\ \A u \in SubscriptionByStripeId(subs, r.data.sub) :
                   subs'[u].status = "past_due"]_vars

\* C19: a dispatcher run for a ScheduledPost that is already posted returns
\* already_posted from its first step: it goes no further (no call to the X
\* API), and the row and the user's rate counter stay as they were.
C19_PostedRowIsSkipped ==
    [][\A t \in BagToSet(tasks) :
          (posts[t.id].present /\ posts[t.id].status = "posted" /\ TaskStart(t))
          => /\ response' = Answer(t.id, "already_posted")
             /\ UNCHANGED <<posts, rate, tweets, workers>>]_vars

C19_Witness ==
    \E i \in PostIds :
        /\ response = Answer(i, "already_posted")
        /\ posts[i].present /\ posts[i].status = "posted"
        /\ posts[i].x_post_id # 0
        /\ tweets[i] = 1
        /\ rate.count > 0

\* C20: a dispatcher run that finds the user's counter at the limit goes on
\* to read the time to reset and not to the X API, and changes neither the
\* row nor the count of tweets; when it then writes to a row that is pending
\* and due, the row stays pending and its scheduled_for moves to a strictly
\* later time, at least now plus the time to reset the run was given.
C20_BlockedRunReschedules ==
    [][/\ \A w \in WorkersAt("check") :
             (rate.count >= X_API_POST_LIMIT /\ RateCheck(w))
             => /\ workers' = WorkerMoves(w, [w EXCEPT !.pc = "ttl"])
                /\ UNCHANGED <<posts, tweets, rate>>
       /\ \A w \in WorkersAt("ttl") :
             RateTtl(w) => UNCHANGED <<posts, tweets, rate>>
       /\ \A w \in WorkersAt("resched") :
             (/\ posts[w.id].present
              /\ posts[w.id].status = "pending"
              /\ posts[w.id].scheduled_for <= now
              /\ Reschedule(w))
             => /\ posts'[w.id].present
                /\ posts'[w.id].status = "pending"
                /\ posts'[w.id].scheduled_for > posts[w.id].scheduled_for
                /\ posts'[w.id].scheduled_for >= now + w.reset_in
                /\ w.reset_in > 0
                /\ UNCHANGED <<tweets, rate>>]_vars

C20_Witness ==
    \E i \in PostIds :
        /\ response = Answer(i, "task_failed")
        /\ posts[i].present /\ posts[i].status = "pending"
        /\ blocked[i]
        /\ posts[i].scheduled_for > now
        /\ tweets[i] = 0
        /\ rate.count = X_API_POST_LIMIT
        /\ \A w \in BagToSet(workers) : w.id # i


(***************************************************************************)
(* C21: across any sequence of dispatcher invocations for a ScheduledPost, *)
(* its scheduled_for never decreases: no step replaces the scheduled_for   *)
(* of a row by an earlier time.                                            *)
(***************************************************************************)
C21_ScheduledForNeverDecreases ==
    [][\A i \in PostIds :
          (posts[i].present /\ posts'[i].present)
          => posts'[i].scheduled_for >= posts[i].scheduled_for]_vars


(***************************************************************************)
(* C22: when the row of a ScheduledPost was deleted before its dispatcher  *)
(* task loads it, the run of the dispatcher for that id ends at the load   *)
(* with "not found": no run is left to call the X API, and no              *)
(* ScheduledPost row and no rate counter changes.                          *)
(***************************************************************************)
C22_DeletedRowIsNotDispatched ==
    [][\A t \in BagToSet(tasks) :
          (posts[t.id].deleted /\ TaskStart(t))
          => /\ response' = Answer(t.id, "not_found")
             /\ UNCHANGED <<posts, rate, tweets, workers>>]_vars

\* The task of a deleted row has run: nothing was posted for it
C22_Witness ==
    \E i \in PostIds :
        /\ posts[i].deleted
        /\ response = Answer(i, "not_found")
        /\ tweets[i] = 0
        /\ \A w \in BagToSet(workers) : w.id # i


(***************************************************************************)
(* C23: a delete request that finds the row posted is answered 400, and a  *)
(* delete request for a row of another user is answered 404; in both       *)
(* cases no row changes and no deletion is started.                        *)
(***************************************************************************)
C23_DeleteRefusals ==
    [][\A q \in Requesters, i \in PostIds :
          (posts[i].present /\ DeleteLoad(q, i))
          => /\ (q = Owner /\ posts[i].status = "posted")
                => /\ response' = Answer(i, "400")
                   /\ UNCHANGED <<posts, deletes>>
             /\ q # Owner
                => /\ response' = Answer(i, "404")
                   /\ UNCHANGED <<posts, deletes>>]_vars

\* A posted row whose deletion was refused with 400 and which is still there
C23_Witness ==
    \E i \in PostIds :
        /\ posts[i].present
        /\ posts[i].status = "posted"
        /\ response = Answer(i, "400")
        /\ deletes = EmptyBag


(***************************************************************************)
(* C24: when the rate limit allows and the call to the X API succeeds, the *)
(* run keeps the returned tweet id and the utcnow() of posted_at, adds     *)
(* exactly one to the user's counter, and its commit, on a row that no     *)
(* other request has changed since the run loaded it, leaves the row       *)
(* posted with that x_post_id and posted_at and with error_message NULL.   *)
(***************************************************************************)
C24_SuccessMarksPosted ==
    [][/\ \A w \in WorkersAt("post") :
            (~w.snap.too_long /\ PostTweet(w, TRUE))
            => /\ tweets'[w.id] > 0
               /\ workers' = WorkerMoves(w, [w EXCEPT !.pc = "incr",
                                                      !.tweet = tweets'[w.id],
                                                      !.stamp = now])
               /\ UNCHANGED <<posts, rate>>
       /\ \A w \in WorkersAt("incr") :
            IncrementCount(w)
            => /\ rate'.count = rate.count + 1
               /\ workers' = WorkerMoves(w, [w EXCEPT !.pc = "commit"])
               /\ UNCHANGED posts
       /\ \A w \in WorkersAt("commit") :
            (posts[w.id] = w.snap /\ CommitPosted(w))
            => /\ posts' = [posts EXCEPT ![w.id].status = "posted",
                                         ![w.id].x_post_id = w.tweet,
                                         ![w.id].posted_at = w.stamp,
                                         ![w.id].error_message = "null"]
               /\ w.tweet > 0
               /\ response' = Answer(w.id, "task_done")
               /\ workers' = WorkerLeaves(w)
               /\ UNCHANGED rate]_vars

\* A run has posted a row from an absent counter: the row is posted, carries
\* the tweet id and no error_message, and the counter stands at one
C24_Witness ==
    \E i \in PostIds :
        /\ response = Answer(i, "task_done")
        /\ posts[i].status = "posted"
        /\ posts[i].x_post_id > 0
        /\ posts[i].posted_at > 0
        /\ posts[i].error_message = "null"
        /\ tweets[i] = 1
        /\ rate.count = 1


(***************************************************************************)
(* C25: when the call to the X API raises, the run marks the row, which no *)
(* other request has changed since the run loaded it, failed with the      *)
(* error text, leaves the rate counter alone, and ends with the error: it  *)
(* does not call the X API again and queues no new task.                   *)
(***************************************************************************)
C25_FailureMarksFailed ==
    [][\A w \in WorkersAt("post") :
          (~w.snap.too_long /\ posts[w.id] = w.snap /\ PostTweet(w, FALSE))
          => /\ posts' = [posts EXCEPT ![w.id].status = "failed",
                                       ![w.id].error_message = "api"]
             /\ response' = Answer(w.id, "task_failed")
             /\ workers' = WorkerLeaves(w)
             /\ UNCHANGED <<rate, tweets, tasks>>]_vars

\* The only run for a row has failed at the X API: the row is failed with the
\* error text, nothing was posted and nothing is queued or running
C25_Witness ==
    \E i \in PostIds :
        /\ response = Answer(i, "task_failed")
        /\ posts[i].status = "failed"
        /\ posts[i].error_message = "api"
        /\ ~blocked[i]
        /\ tweets[i] = 0
        /\ rate = NoKey
        /\ tasks = EmptyBag
        /\ workers = EmptyBag


(***************************************************************************)
(* C26: check_rate_limit is a read.  For an absent counter it answers      *)
(* (allowed, 0); for a counter that exists it answers the stored count,    *)
(* and allowed exactly when that count is below the limit; the step that   *)
(* performs it changes neither the count nor the time to live, and the run *)
(* goes on to post exactly when the answer is allowed.                     *)
(***************************************************************************)
C26_CheckIsPureRead ==
    [][/\ rate = NoKey => check_rate_limit(rate, X_API_POST_LIMIT) = <<TRUE, 0>>
       /\ rate # NoKey
          => check_rate_limit(rate, X_API_POST_LIMIT)
                = <<rate.count < X_API_POST_LIMIT, rate.count>>
       /\ \A w \in WorkersAt("check") :
            RateCheck(w)
            => /\ rate' = rate
               /\ workers' = WorkerMoves(w,
                     [w EXCEPT !.pc = IF rate = NoKey \/ rate.count < X_API_POST_LIMIT
                                      THEN "post" ELSE "ttl"])]_vars

\* A run was refused with the counter exactly at the limit, and the counter
\* still has the time to live it had
C26_Witness ==
    \E w \in BagToSet(workers) :
        /\ w.pc = "ttl"
        /\ rate.count = X_API_POST_LIMIT
        /\ rate.ttl = X_API_WINDOW


(***************************************************************************)
(* C27: increment_rate_limit adds one to the counter and sets its time to  *)
(* live to the window in one step, whatever other runs are about to        *)
(* increment the same key, so that every increment is counted; and a       *)
(* counter that exists has a positive time to live, before and after every *)
(* step.                                                                   *)
(***************************************************************************)
C27_IncrementIsAtomic ==
    [][/\ rate.count > 0 => rate.ttl > 0
       /\ rate'.count > 0 => rate'.ttl > 0
       /\ \A w \in WorkersAt("incr") :
            IncrementCount(w)
            => /\ rate'.count = rate.count + 1
               /\ rate'.ttl = X_API_WINDOW]_vars

\* Two runs were about to increment an absent counter at the same time, and
\* both have done so: the counter stands at two and has the window to live
C27_Witness ==
    /\ BagCardinality(workers) = 2
    /\ \A w \in BagToSet(workers) : w.pc = "commit"
    /\ rate = [count |-> 2, ttl |-> X_API_WINDOW]


(***************************************************************************)
(* C28: when the token exchange of a callback fails, the callback is       *)
(* answered 400 with the reason, the users table is unchanged, and the     *)
(* state key, deleted before the exchange, is not in Redis; a state that   *)
(* was issued and is gone is never stored again, and a callback that then  *)
(* arrives with it is answered 400 without reaching the exchange.          *)
(***************************************************************************)
C28_FailedExchange ==
    [][/\ \A c \in CallbacksAt("exchange"), x \in XAccounts, h \in Handles :
            CallbackExchange(c, "rejected", x, h)
            => /\ response' = Answer(c.state, "400_exchange_failed")
               /\ callbacks' = CallbackLeaves(c)
               /\ states'[c.state].ttl = 0
               /\ UNCHANGED <<users, exchanges>>
       /\ \A s \in StateIds :
            (states[s].issued /\ states[s].ttl = 0) => states'[s].ttl = 0
       /\ \A s \in StateIds :
            (states[s].issued /\ states[s].ttl = 0 /\ CallbackGet(s))
            => /\ response' = Answer(s, "400_invalid_state")
               /\ UNCHANGED <<callbacks, users, exchanges>>]_vars

\* The exchange of a callback was rejected: 400, no user, no tokens granted
\* for the state, and the state key is gone
C28_Witness ==
    \E s \in StateIds :
        /\ response = Answer(s, "400_exchange_failed")
        /\ states[s].issued
        /\ states[s].ttl = 0
        /\ exchanges[s] = 0
        /\ users = <<>>
        /\ callbacks = EmptyBag


(***************************************************************************)
(* C29: content of more than 280 characters is refused by post_tweet       *)
(* before any call to the X API.  In the dispatcher no tweet is created    *)
(* and the rate counter is not incremented, whatever the X API would have  *)
(* answered, and the run marks the row, which no other request has changed *)
(* since the run loaded it, failed with the length error.                  *)
(***************************************************************************)
C29_TooLongIsRefusedLocally ==
    [][\A w \in WorkersAt("post"), ok \in BOOLEAN :
          (w.snap.too_long /\ PostTweet(w, ok))
          => /\ UNCHANGED <<tweets, rate, tasks>>
             /\ response' = Answer(w.id, "task_failed")
             /\ workers' = WorkerLeaves(w)
             /\ posts[w.id] = w.snap
                => posts' = [posts EXCEPT ![w.id].status = "failed",
                                          ![w.id].error_message = "length"]]_vars

\* The run for a row with content too long has ended: the row is failed with
\* the length error and no tweet was created
C29_Witness ==
    \E i \in PostIds :
        /\ response = Answer(i, "task_failed")
        /\ posts[i].too_long
        /\ posts[i].status = "failed"
        /\ posts[i].error_message = "length"
        /\ tweets[i] = 0
        /\ workers = EmptyBag


(***************************************************************************)
(* C30: no billing endpoint changes the status or the plan_type of a       *)
(* Subscription row that exists.  create-checkout and create-portal leave  *)
(* such a row as it is, cancel and reactivate change no column of it other *)
(* than cancel_at_period_end, and a step that changes status or plan_type  *)
(* is the step of a webhook handler.                                       *)
(***************************************************************************)
C30_EndpointsKeepStatusAndPlan ==
    [][\A u \in Users :
          subs[u].present
          => /\ (\E o \in {"ok", "no_customer", "no_session"} : CreateCheckout(u, o))
                => subs' = subs
             /\ (\E ok \in BOOLEAN : CreatePortal(u, ok))
                => subs' = subs
             /\ (\E ok \in BOOLEAN :
                    CancelSubscription(u, ok) \/ ReactivateSubscription(u, ok))
                => subs' = [subs EXCEPT ![u].cancel_at_period_end =
                                            subs'[u].cancel_at_period_end]
             /\ (subs'[u].status # subs[u].status
                    \/ subs'[u].plan_type # subs[u].plan_type)
                => \E r \in AtPc("handle") : WebhookHandle(r)]_vars

\* A cancel request was accepted for an active pro subscription, which is
\* still active and pro and now carries the flag
C30_Witness ==
    \E u \in Users :
        /\ response = EndpointAnswer("cancel_200")
        /\ subs[u].status = "active"
        /\ subs[u].plan_type = "pro"
        /\ subs[u].cancel_at_period_end


(***************************************************************************)
(* C31: in every reachable state the status of a Subscription row is one   *)
(* of incomplete, active, canceled, past_due, unpaid and its plan_type is  *)
(* free or pro, whatever status a customer.subscription.updated event      *)
(* carries.                                                                *)
(***************************************************************************)
C31_StatusAndPlanInDomain ==
    \A u \in Users :
        subs[u].present
        => /\ subs[u].status \in SubscriptionStatuses
           /\ subs[u].plan_type \in PlanTypes

(***************************************************************************)
(* C32: the pro gate admits a user exactly when, as the request is served, *)
(* the user has a Subscription with status active and plan_type pro; a     *)
(* user without a Subscription is answered 403; the gate writes nothing,   *)
(* and its answer is computed from the Subscription row of that moment.    *)
(***************************************************************************)
C32_ProGate ==
    [][\A u \in Users :
          RequireProPlan(u)
          => /\ response' = EndpointAnswer("pro_200")
                <=> /\ subs[u].present
                    /\ subs[u].status = "active"
                    /\ subs[u].plan_type = "pro"
             /\ response' # EndpointAnswer("pro_200") => response' = EndpointAnswer("403")
             /\ ~subs[u].present => response' = EndpointAnswer("403")
             /\ UNCHANGED <<subs, payments, ledger>>]_vars

\* A user whose subscription is active and still on the free plan was
\* refused by the gate
C32_Witness ==
    \E u \in Users :
        /\ response = EndpointAnswer("403")
        /\ subs[u].present
        /\ subs[u].status = "active"
        /\ subs[u].plan_type = "free"

(***************************************************************************)
(* C33: PaymentHistory is append-only: every step of a webhook request or  *)
(* of an endpoint leaves each existing PaymentHistory row where it is and  *)
(* as it is, so the table only grows.                                      *)
(***************************************************************************)
C33_PaymentHistoryAppendOnly ==
    [][/\ Len(payments') >= Len(payments)
       /\ \A i \in 1..Len(payments) : payments'[i] = payments[i]]_vars

\* A payment was recorded for an invoice, and a later event of another kind
\* has been handled with the row still in the table
C33_Witness ==
    /\ Len(payments) = 1
    /\ payments[1].status = "succeeded"
    /\ \E r \in AtPc("mark") :
          /\ catalog[r.ev].type = "customer.subscription.deleted"
          /\ applied[r.ev] > 0
    /\ \A u \in Users : subs[u].present => subs[u].status = "canceled"

B64Digit(c) == CHOOSE i \in 0..63 : UrlSafeAlphabet(i) = c

\* Byte j (from 0) of the bytes a base64 string stands for: bits 8j..8j+7
\* of the row of 6-bit digits
B64DecodedByte(str, j) ==
    LET q == (8 * j) \div 6
        r == (8 * j) % 6
        hi == B64Digit(str[q + 1])
        lo == B64Digit(str[q + 2])
    IN  IF r = 0 THEN hi * 4 + lo \div 16
        ELSE IF r = 2 THEN (hi % 16) * 16 + lo \div 4
        ELSE (hi % 4) * 64 + lo

C35_ChallengeMatchesVerifier ==
    pkce # NoPkce
    => /\ Len(pkce.verifier) = 43
       /\ Len(pkce.challenge) = 43
       /\ \A k \in 1..43 :
             /\ \E i \in 0..63 : UrlSafeAlphabet(i) = pkce.verifier[k]
             /\ \E i \in 0..63 : UrlSafeAlphabet(i) = pkce.challenge[k]
       /\ \A j \in 0..31 :
             B64DecodedByte(pkce.challenge, j) = sha256(pkce.verifier)[j + 1]
       /\ B64Digit(pkce.challenge[43]) % 4 = 0

\* A pair was generated whose verifier and challenge both use the two digits
\* that set the URL-safe alphabet apart ("-" and "_")
C35_Witness ==
    /\ pkce # NoPkce
    /\ \E k \in 1..Len(pkce.verifier) : pkce.verifier[k] \in {45, 95}
    /\ \E k \in 1..Len(pkce.challenge) : pkce.challenge[k] \in {45, 95}

(***************************************************************************)
(* C36: in every state reached by processing webhook events, a             *)
(* Subscription whose status is active has plan_type pro (and so its user  *)
(* passes the pro gate).                                                   *)
(***************************************************************************)
C36_ActiveImpliesPro ==
    \A u \in Users :
        (subs[u].present /\ subs[u].status = "active") => subs[u].plan_type = "pro"

(***************************************************************************)
(* C37: for a Subscription as create-checkout inserts it, handling         *)
(* checkout.session.completed and then customer.subscription.updated with  *)
(* status active, both for the same Stripe subscription, leaves the status *)
(* and the plan_type that handling them in the other order leaves.         *)
(***************************************************************************)
C37_EventOrderIsIrrelevant ==
    \A u \in Users :
        subs[u] = NewSubscription
        => LET completed == Payload("checkout.session.completed", u, u,
                                    "incomplete", FALSE, 0, 0, FALSE)
               updated == Payload("customer.subscription.updated", 0, u,
                                  "active", FALSE, 1, 0, FALSE)
               first == RunHandler(completed, subs, payments).subs
               firstThen == RunHandler(updated, first, payments).subs
               other == RunHandler(updated, subs, payments).subs
               otherThen == RunHandler(completed, other, payments).subs
           IN  /\ firstThen[u].status = otherThen[u].status
               /\ firstThen[u].plan_type = otherThen[u].plan_type

(***************************************************************************)
(* C38: whenever check_x_post_rate_limit has read a count that refuses the *)
(* user and is about to read the counter's time to live, that read yields  *)
(* a positive reset_in (never None), also when time has passed between the *)
(* two reads.                                                              *)
(***************************************************************************)
C38_RefusalHasResetIn ==
    \A w \in WorkersAt("ttl") : get_ttl(rate) > 0

C40_UnmatchedEventIsInert ==
    [][/\ \A r \in AtPc("handle") :
            LET d == r.data
                unhandled == d.type \notin {"checkout.session.completed",
                                            "customer.subscription.updated",
                                            "customer.subscription.deleted",
                                            "invoice.paid",
                                            "invoice.payment_failed"}
                unmatched == /\ d.type \in {"customer.subscription.updated",
                                            "customer.subscription.deleted",
                                            "invoice.paid",
                                            "invoice.payment_failed"}
                             /\ \/ d.sub = 0
                                \/ \A u \in Users :
                                     ~(/\ subs[u].present
                                       /\ subs[u].stripe_subscription_id = d.sub)
            IN  ((unhandled \/ unmatched)
                 /\ CopiesIn(r, deliveries') < CopiesIn(r, deliveries))
                => /\ subs' = subs
                   /\ payments' = payments
                   /\ applied' = applied
                   /\ deliveries' = Move(r, InFlight("mark", r.ev, r.data))
       /\ \A r \in AtPc("mark") :
            CopiesIn(r, deliveries') < CopiesIn(r, deliveries)
            => ledger'[r.ev].present /\ ledger'[r.ev].processed
       /\ \A e \in DOMAIN ledger :
            (ledger[e].present /\ ledger[e].processed)
            => \A r \in BagToSet(deliveries') :
                 (r.ev = e /\ r.pc \in {"insert", "handle"})
                 => CopiesIn(r, deliveries') <= CopiesIn(r, deliveries)]_vars

\* A row exists, an update for a subscription id it does not carry has been
\* handled without a write, and the request is about to mark the event
C40_Witness ==
    \E r \in AtPc("mark") :
        /\ r.data.type = "customer.subscription.updated"
        /\ applied[r.ev] = 0
        /\ \E u \in Users :
             subs[u].present /\ subs[u].stripe_subscription_id # r.data.sub

====
